---- MODULE Spec2Model ----
(***************************************************************************)
(* A model of zyspotify/respot.py.                                         *)
(*                                                                         *)
(*   Spec      the authenticated request layer: RespotRequest              *)
(*             .authorized_get_request with its recursive retry(), the     *)
(*             token pair and RespotAuth.refresh_token.                    *)
(*   SpecSweep the paginated sweeps built on top of it.                    *)
(*   SpecCache the cache-gated getters built on the sweeps and db_manager. *)
(*   SpecDownload  Respot.download and RespotTrackHandler.download_audio.    *)
(*   SpecThreads   several threads refreshing the tokens of one client.      *)
(*   SpecSniff     RespotTrackHandler.determine_file_extension.              *)
(***************************************************************************)
EXTENDS Integers, Sequences, FiniteSets, TLC

\* ------------------------------------------------------------------------
\* Program constants
\* ------------------------------------------------------------------------
MAX_AUTH_GET_RETRIES == 10
AUTH_GET_TIMEOUT == 10
AUTH_GET_RETRY_MULTIPLE_SEC == 10

\* URLs are sequences of characters.  The long host parts are abbreviated to
\* one character each ("a" for https://api.spotify.com/v1, "l" for the
\* lyrics host and path); what follows the base is spelled out, so that a
\* prefix test sees the same characters the code's startswith sees.
SPOTIFY_API == <<"a">>
API_ME == SPOTIFY_API \o <<"/", "m", "e">>
API_PLAYLIST == SPOTIFY_API \o <<"/", "p", "l">>
LYRIC_API == <<"l">>

\* ------------------------------------------------------------------------
\* Bounds of the model
\* ------------------------------------------------------------------------
\* refresh_token is called at most this many times after login
MaxRefresh == 2
\* the server answers at most this many attempts of one call with a 204 or
\* an empty JSON body
MaxNoContent == 2
\* a remote list holds at most this many full pages, plus zero or one item
MaxFullPages == 1

\* ------------------------------------------------------------------------
\* Values
\* ------------------------------------------------------------------------
\* Python's None where a token is expected
NoToken == [scope |-> "none", gen |-> 0]
\* session.tokens().get(scope) of the gen-th session
SessionToken(scope, gen) == [scope |-> scope, gen |-> gen]

\* Python's None where a response is expected
NoResp == [status |-> 0, ctype |-> "none", body |-> "none"]
JsonResp(status, body) == [status |-> status, ctype |-> "application/json", body |-> body]
R200 == JsonResp(200, "data")
R200Empty == JsonResp(200, "empty")
R200Malformed == JsonResp(200, "malformed")
R200Binary == [status |-> 200, ctype |-> "text/plain", body |-> "data"]
R200NoCType == [status |-> 200, ctype |-> "missing", body |-> "data"]
R204 == [status |-> 204, ctype |-> "missing", body |-> "empty"]
R401 == JsonResp(401, "data")
R404 == JsonResp(404, "data")
R500 == JsonResp(500, "data")
Responses == {R200, R200Empty, R200Malformed, R200Binary, R200NoCType, R204, R401, R404, R500}

\* what requests.get does: it raises, or it hands back a response
NetExceptions == {"ConnectionError", "Timeout", "RequestException"}
Outcomes == {[exc |-> "none", resp |-> r] : r \in Responses}
            \cup {[exc |-> e, resp |-> NoResp] : e \in NetExceptions}

\* str.startswith
StartsWith(s, p) == Len(s) >= Len(p) /\ SubSeq(s, 1, Len(p)) = p

\* the callers' arguments: url, keyword params, add_header
NoHeader == "none"
LyricHeader == "webplayer"
CallInputs == {
    [url |-> SPOTIFY_API \o <<"/", "a", "l">>, params |-> "limit_offset", add_header |-> NoHeader],
    [url |-> API_ME \o <<"/", "t">>, params |-> "limit_offset", add_header |-> NoHeader],
    [url |-> API_ME \o <<"p">>, params |-> "limit_offset", add_header |-> NoHeader],
    [url |-> SPOTIFY_API \o <<"/", "m">>, params |-> "none", add_header |-> NoHeader],
    [url |-> LYRIC_API \o <<"/", "s">>, params |-> "none", add_header |-> LyricHeader] }

VARIABLES
    \* RespotAuth
    session,                \* generation of auth.session (a new one per refresh)
    auth_token,             \* auth.token
    auth_token_your_library,\* auth.token_your_library
    \* RespotRequest
    token,                  \* self.token
    token_your_library,     \* self.token_your_library
    \* one authorized_get_request call and its recursion
    cur,                    \* the arguments of the call in progress (or of the last one)
    stack,                  \* the frames of the recursion, innermost last
    result,                 \* what the outermost invocation gave its caller
    innerRet,               \* what the innermost invocation gave its caller
    nreq,                   \* requests.get calls of this call
    nfail,                  \* attempts of this call that ended in retry()
    nnocontent,             \* 204 / empty-JSON answers of this call
    sleeps,                 \* time.sleep arguments of this call, in order
    lastReq,                \* the latest requests.get call
    lastResp,               \* its outcome
    \* RespotAuth's command line switches
    force_album_query,
    force_liked_artist_query,
    \* db_manager
    db_have,                \* the "have all ..." flag of each collection key
    db_rows,                \* the ids of the records stored under each collection key
    \* one sweep or one cache-gated getter call
    op,                     \* the method running (or the last one run) and its key
    pc,                     \* where it stands
    remote,                 \* the remote list it reads
    offset,                 \* the sweep's offset
    acc,                    \* the sweep's accumulated list
    offsets,                \* the offsets requested, in order
    events,                 \* the getter's steps, in order
    out,                    \* what the method gave its caller
    prev,                   \* the call before, when it was the same getter on the same key
    \* Respot / RespotTrackHandler
    antiban_wait_time,      \* self.antiban_wait_time
    \* one Respot.download call
    total_size,             \* stream.input_stream.size
    stream_head,            \* the first bytes of the stream
    downloaded,             \* download_audio's downloaded
    fail_count,             \* download_audio's fail_count
    audio_bytes,            \* download_audio's BytesIO, as the segments written to it
    reads,                  \* the read calls on the stream, in order
    dl_pc,                  \* where the call stands
    dl_sleeps,              \* time.sleep arguments of this call, in order
    audio,                  \* what download_audio gave Respot.download
    dl_out,                 \* what Respot.download gave its caller
    persisted,              \* the files Respot.download wrote or converted
    \* threads sharing one RespotRequest / RespotAuth
    threads,                \* each thread's position and locals
    created,                \* sessions created so far
    \* one determine_file_extension call
    sniff_in,               \* the bytes of the BytesIO it is given
    sniff_out,              \* what it returned or raised
    \* request_song_lyrics
    lyrics_files,           \* the lyric files on disk, by song
    lyrics_downloaded,      \* db_manager's lyrics-downloaded flag, by song
    lyrics_call             \* the latest request_song_lyrics call and what it did

reqVars == <<session, auth_token, auth_token_your_library, token, token_your_library,
             cur, stack, result, innerRet, nreq, nfail, nnocontent, sleeps, lastReq, lastResp>>

syncVars == <<force_album_query, force_liked_artist_query, db_have, db_rows,
              op, pc, remote, offset, acc, offsets, events, out, prev>>

dlVars == <<antiban_wait_time, total_size, stream_head, downloaded, fail_count, audio_bytes,
            reads, dl_pc, dl_sleeps, audio, dl_out, persisted>>

thrVars == <<threads, created>>

sniffVars == <<sniff_in, sniff_out>>
lyricVars == <<lyrics_files, lyrics_downloaded, lyrics_call>>

vars == <<reqVars, syncVars, dlVars, thrVars, sniffVars, lyricVars>>

NoReq == [url |-> <<>>, auth |-> NoToken, add_header |-> NoHeader, params |-> "none",
          timeout |-> 0, retry_count |-> 0]
NoCall == [url |-> <<>>, params |-> "none", add_header |-> NoHeader]
NoOutcome == [exc |-> "none", resp |-> NoResp]
Idle == [kind |-> "idle", val |-> NoResp, exc |-> "none"]
Pending == [kind |-> "pending", val |-> NoResp, exc |-> "none"]
Returned(v) == [kind |-> "return", val |-> v, exc |-> "none"]
Raised(e) == [kind |-> "raise", val |-> NoResp, exc |-> e]

\* ------------------------------------------------------------------------
\* RespotAuth / RespotRequest construction
\* ------------------------------------------------------------------------
\* Respot.is_authenticated returned True; login went through stored
\* credentials (refresh_token ran) or through user and password (it did not).
InitRequest(paths) ==
    /\ session = 1
    /\ \E path \in paths :
        /\ auth_token = IF path = "stored" THEN SessionToken("user-read-email", 1) ELSE NoToken
        /\ auth_token_your_library =
               IF path = "stored" THEN SessionToken("user-library-read", 1) ELSE NoToken
    /\ token = auth_token
    /\ token_your_library = auth_token_your_library
    /\ cur = NoCall
    /\ stack = <<>>
    /\ result = Idle
    /\ innerRet = Idle
    /\ nreq = 0
    /\ nfail = 0
    /\ nnocontent = 0
    /\ sleeps = <<>>
    /\ lastReq = NoReq
    /\ lastResp = NoOutcome

\* ------------------------------------------------------------------------
\* authorized_get_request
\* ------------------------------------------------------------------------
Frame(url, retry_count, params, add_header) ==
    [url |-> url, retry_count |-> retry_count, params |-> params,
     add_header |-> add_header, pc |-> "start", response |-> NoResp]

\* a mutation of SelectToken: the lyrics base is not tested
SelectToken_MeOnly(url, tok, tok_lib) ==
    IF StartsWith(url, API_ME) THEN tok_lib ELSE tok

\* the Authorization header's token
SelectToken(url, tok, tok_lib) ==
    IF StartsWith(url, API_ME) \/ StartsWith(url, LYRIC_API) THEN tok_lib ELSE tok

\* a mutation of RetryDelay: the count is taken after its increment
RetryDelay_AfterIncrement(retry_count) == (retry_count + 1) * AUTH_GET_RETRY_MULTIPLE_SEC

\* the argument of time.sleep in retry()
RetryDelay(retry_count) == retry_count * AUTH_GET_RETRY_MULTIPLE_SEC

\* the frame retry() calls authorized_get_request with
RetryFrame(f) == Frame(f.url, f.retry_count + 1, f.params, f.add_header)

\* a mutation of ExceedsRetries: >= for >
ExceedsRetries_OffByOne(retry_count) == retry_count >= MAX_AUTH_GET_RETRIES

\* the guard at the head of authorized_get_request
ExceedsRetries(retry_count) == retry_count > MAX_AUTH_GET_RETRIES

\* the three kinds of step an invocation can take after its request
DoReturn(v) == [do |-> "return", val |-> v, exc |-> "none", pc |-> "start", refresh |-> FALSE]
DoRaise(e) == [do |-> "raise", val |-> NoResp, exc |-> e, pc |-> "start", refresh |-> FALSE]
DoRetry(at, rf) == [do |-> "retry", val |-> NoResp, exc |-> "none", pc |-> at, refresh |-> rf]

\* a mutation of HandleHTTPError: a 401 is retried without a refresh
HandleHTTPError_NoRefresh(r) ==
    IF r.status = 401 THEN DoRetry("except", FALSE)
    ELSE IF r.status = 404 THEN DoReturn(r)
    ELSE DoRetry("except", FALSE)

\* a mutation of HandleHTTPError: a 404 is retried like any other error
HandleHTTPError_Retry404(r) ==
    IF r.status = 401 THEN DoRetry("except", TRUE)
    ELSE DoRetry("except", FALSE)

\* the except clause for requests.exceptions.HTTPError
HandleHTTPError(r) ==
    IF r.status = 401 THEN DoRetry("except", TRUE)
    ELSE IF r.status = 404 THEN DoReturn(r)
    ELSE DoRetry("except", FALSE)

\* the try block after raise_for_status() passed
HandleNoError(r) ==
    IF r.status = 204 THEN DoRetry("try_204", FALSE)
    ELSE IF r.ctype = "missing" THEN DoRaise("KeyError")
    ELSE IF r.ctype = "application/json" THEN
             IF r.body = "malformed" THEN DoRetry("except", FALSE)
             ELSE IF r.body = "empty" THEN DoRetry("try_empty", FALSE)
             ELSE DoReturn(r)
    ELSE DoReturn(r)

\* What one invocation does with the outcome of its requests.get, up to its
\* first return, raise or retry():
\*   do = "return": return val
\*   do = "raise":  exc leaves the invocation
\*   do = "retry":  retry() is called at pc (inside the try block after a 204
\*                  or an empty body, inside an except clause otherwise),
\*                  after a refresh when refresh is TRUE
Handle(o) ==
    IF o.exc # "none" THEN DoRetry("except", FALSE)
    ELSE IF o.resp.status >= 400 THEN HandleHTTPError(o.resp)
    ELSE HandleNoError(o.resp)

\* What an invocation suspended in retry() returns once retry() has returned:
\* the value of retry() is dropped; after the 204 and the empty-body branch
\* control reaches "return response", an except clause ends the function.
AfterRetry(f) ==
    IF f.pc \in {"try_204", "try_empty"} THEN f.response ELSE NoResp

\* The value the outermost invocation returns when the innermost returned v
RECURSIVE Unwind(_, _)
Unwind(stk, v) ==
    IF stk = <<>> THEN v
    ELSE Unwind(SubSeq(stk, 1, Len(stk) - 1), AfterRetry(stk[Len(stk)]))

\* a caller invokes authorized_get_request(url, add_header=..., **kwargs)
Call(inp) ==
    /\ stack = <<>>
    /\ cur' = inp
    /\ stack' = <<Frame(inp.url, 0, inp.params, inp.add_header)>>
    /\ result' = Pending
    /\ innerRet' = Pending
    /\ nreq' = 0
    /\ nfail' = 0
    /\ nnocontent' = 0
    /\ sleeps' = <<>>
    /\ lastReq' = NoReq
    /\ lastResp' = NoOutcome
    /\ UNCHANGED <<session, auth_token, auth_token_your_library, token, token_your_library>>

\* the innermost invocation finds retry_count > MAX_AUTH_GET_RETRIES and
\* raises; no invocation below it catches a RuntimeError
TooManyRetries ==
    /\ stack # <<>>
    /\ ExceedsRetries(stack[Len(stack)].retry_count)
    /\ stack' = <<>>
    /\ result' = Raised("RuntimeError")
    /\ innerRet' = Raised("RuntimeError")
    /\ UNCHANGED <<session, auth_token, auth_token_your_library, token, token_your_library,
                   cur, nreq, nfail, nnocontent, sleeps, lastReq, lastResp>>

\* RespotAuth.refresh_token: a new session, both tokens taken from it
RefreshedPair(gen) ==
    <<SessionToken("user-read-email", gen), SessionToken("user-library-read", gen)>>

\* self.token, self.token_your_library = self.auth.refresh_token()
StoreRefreshed(pair) == pair

\* the innermost invocation issues its request and acts on the outcome o
Attempt(o) ==
    /\ stack # <<>>
    /\ LET f == stack[Len(stack)]
           h == Handle(o)
           below == SubSeq(stack, 1, Len(stack) - 1)
       IN
       /\ ~ExceedsRetries(f.retry_count)
       /\ h.refresh => session < 1 + MaxRefresh
       /\ h.pc \in {"try_204", "try_empty"} => nnocontent < MaxNoContent
       /\ nreq' = nreq + 1
       /\ lastReq' = [url |-> f.url,
                      auth |-> SelectToken(f.url, token, token_your_library),
                      add_header |-> f.add_header,
                      params |-> f.params,
                      timeout |-> AUTH_GET_TIMEOUT,
                      retry_count |-> f.retry_count]
       /\ lastResp' = o
       /\ cur' = cur
       /\ IF h.refresh
          THEN /\ session' = session + 1
               /\ auth_token' = RefreshedPair(session + 1)[1]
               /\ auth_token_your_library' = RefreshedPair(session + 1)[2]
               /\ token' = StoreRefreshed(RefreshedPair(session + 1))[1]
               /\ token_your_library' = StoreRefreshed(RefreshedPair(session + 1))[2]
          ELSE UNCHANGED <<session, auth_token, auth_token_your_library,
                           token, token_your_library>>
       /\ CASE h.do = "return" ->
                 /\ stack' = <<>>
                 /\ innerRet' = Returned(h.val)
                 /\ result' = Returned(Unwind(below, h.val))
                 /\ UNCHANGED <<nfail, nnocontent, sleeps>>
            [] h.do = "raise" ->
                 /\ stack' = <<>>
                 /\ innerRet' = Raised(h.exc)
                 /\ result' = Raised(h.exc)
                 /\ UNCHANGED <<nfail, nnocontent, sleeps>>
            [] h.do = "retry" ->
                 /\ stack' = Append(below, [f EXCEPT !.pc = h.pc,
                                               !.response = IF h.pc = "except" THEN NoResp ELSE o.resp])
                             \o <<RetryFrame(f)>>
                 /\ sleeps' = Append(sleeps, RetryDelay(f.retry_count))
                 /\ nfail' = nfail + 1
                 /\ nnocontent' = IF h.pc = "except" THEN nnocontent ELSE nnocontent + 1
                 /\ UNCHANGED <<result, innerRet>>

\* ------------------------------------------------------------------------
\* Paginated sweeps and cache-gated getters
\* ------------------------------------------------------------------------
\* the page size of the sweeps
LIMIT == 50
LIMIT_PLAYLIST_SONGS == 100

\* the sweeps that loop over pages until a short page
PagedSweeps == {"get_all_user_playlists", "get_playlist_songs", "request_all_album_songs",
                "get_liked_tracks", "get_show_episodes"}

Limit(sweep) == IF sweep = "get_playlist_songs" THEN LIMIT_PLAYLIST_SONGS ELSE LIMIT

\* the cache-gated getters, the key each call is about, and the sweep each runs
GetterCalls ==
    {[getter |-> "get_album_songs", sweep |-> "request_all_album_songs", key |-> k] :
        k \in {"album:1", "album:2"}}
    \cup {[getter |-> "get_artist_albums", sweep |-> "request_all_artist_albums", key |-> "artist:1"]}
    \cup {[getter |-> "get_all_liked_artists", sweep |-> "request_all_playlist_artists", key |-> "liked"]}

CollectionKeys == {g.key : g \in GetterCalls}

NoOp == [getter |-> "none", sweep |-> "none", key |-> "none"]

\* A remote list: items 1..T in the order the server lists them; the item at
\* position special (if any) has a null track when playlist songs are listed,
\* and lacks a key on the way to its first artist when artists are listed.
NoRemote == [T |-> 0, special |-> 0]
Sizes(limit, rests) == {p * limit + r : p \in 0..MaxFullPages, r \in rests}

\* the remote lists a sweep run on its own is given
Remotes(sweep) ==
    {[T |-> t, special |-> sp] :
        t \in Sizes(Limit(sweep), {0, 1, Limit(sweep) - 1}),
        sp \in IF sweep = "get_playlist_songs" THEN {0, 1, LIMIT_PLAYLIST_SONGS} ELSE {0}}

\* the remote lists request_all_playlist_artists run on its own is given
ArtistRemotes ==
    {r \in [T : Sizes(LIMIT, {0, 1, LIMIT - 1}), special : {0, 1, 2, LIMIT - 1, LIMIT, LIMIT + 1}] :
        r.special <= r.T}

\* the remote lists a getter's sweep is given
GetterRemotes(sweep) == {[T |-> t, special |-> 0] : t \in Sizes(Limit(sweep), {1})}

\* the "items" of the response to limit=limit&offset=off
Page(r, off, limit) ==
    LET n == IF r.T - off < 0 THEN 0 ELSE IF r.T - off < limit THEN r.T - off ELSE limit
    IN  [k \in 1..n |-> off + k]

\* song["track"]["artists"][0] of item i: consecutive tracks share an artist,
\* artists recur further down the list and do not arrive in sorted order
ArtistOf(i) == 1 + (((i \div 2) * 3) % 5)

\* the for loop over a page's items leaves through except KeyError
ExtractFails(sweep, r, page) ==
    /\ sweep = "request_all_playlist_artists"
    /\ \E k \in 1..Len(page) : page[k] = r.special

\* what a sweep appends to its list for one page
ExtractPage(sweep, r, page) ==
    IF sweep = "get_playlist_songs" THEN SelectSeq(page, LAMBDA i : i # r.special)
    ELSE IF sweep = "request_all_playlist_artists"
         THEN LET n == IF ExtractFails(sweep, r, page) THEN r.special - page[1] ELSE Len(page)
              IN  [k \in 1..n |-> ArtistOf(page[k])]
    ELSE page

\* a mutation of IsLastPage: <= for <
IsLastPage_OffByOne(sweep, page) ==
    sweep = "request_all_artist_albums" \/ Len(page) <= Limit(sweep)

\* the sweep ends after this page: request_all_artist_albums has no loop, the
\* others break on a short page
IsLastPage(sweep, page) ==
    sweep = "request_all_artist_albums" \/ Len(page) < Limit(sweep)

Range(seq) == {seq[k] : k \in 1..Len(seq)}

\* sorted()
RECURSIVE Sorted(_)
Sorted(S) ==
    IF S = {} THEN <<>>
    ELSE LET m == CHOOSE x \in S : \A y \in S : x <= y
         IN  <<m>> \o Sorted(S \ {m})

\* removeDuplicates
removeDuplicates(lst) == Range(lst)

\* a mutation of SweepResult: the list is returned as accumulated
SweepResult_Raw(sweep, list) == list

\* what the sweep returns
SweepResult(sweep, list) ==
    IF sweep = "request_all_playlist_artists" THEN Sorted(removeDuplicates(list)) ELSE list

PendingOut == [kind |-> "pending", list |-> <<>>, rows |-> {}]
ReturnedList(l) == [kind |-> "return", list |-> l, rows |-> {}]
ReturnedRows(s) == [kind |-> "return", list |-> <<>>, rows |-> s]
RaisedOut == [kind |-> "raise", list |-> <<>>, rows |-> {}]
NoPrev == [same |-> FALSE, kind |-> "none", rows |-> {}, events |-> <<>>]

\* authorized_get_request(...).json() as the sweep sees it: a page, or an
\* exception that leaves the sweep
PageOutcomes == {"ok", "raise"}

InitSync(forces) ==
    /\ force_album_query \in forces
    /\ force_liked_artist_query \in forces
    /\ db_have = [k \in CollectionKeys |-> FALSE]
    /\ db_rows = [k \in CollectionKeys |-> {}]
    /\ op = NoOp
    /\ pc = "idle"
    /\ remote = NoRemote
    /\ offset = 0
    /\ acc = <<>>
    /\ offsets = <<>>
    /\ events = <<>>
    /\ out = PendingOut
    /\ prev = NoPrev

\* a mutation of NeedFetch: the complete flag is not consulted
NeedFetch_Always(getter, have) == TRUE

\* a mutation of NeedFetch: either force switch acts on both forced getters
NeedFetch_AnyForce(getter, have) ==
    \/ ~have
    \/ getter \in {"get_artist_albums", "get_all_liked_artists"}
          /\ (force_album_query \/ force_liked_artist_query)

\* the condition guarding the fetch in a getter
NeedFetch(getter, have) ==
    \/ ~have
    \/ getter = "get_artist_albums" /\ force_album_query
    \/ getter = "get_all_liked_artists" /\ force_liked_artist_query

\* a mutation of GetterOrder: the flag is written before the records
GetterOrder_MarkFirst == <<"sweep", "mark", "store", "read", "done">>

\* the order of a getter's statements once it has decided to fetch
GetterOrder == <<"sweep", "store", "mark", "read", "done">>

PcAfter(p) ==
    LET i == CHOOSE j \in 1..(Len(GetterOrder) - 1) : GetterOrder[j] = p
    IN  GetterOrder[i + 1]

\* db_manager: bulk upsert of records keyed by id, read of a key's records
DbUpsert(rows, key, ids) == [rows EXCEPT ![key] = @ \cup ids]
DbRead(rows, key) == rows[key]

\* the getter's return value
GetterValue(rows, key, list) == DbRead(rows, key)

\* a caller runs one of the paged sweeps on its own
StartSweep(sw, r) ==
    /\ pc \in {"idle", "done"}
    /\ op' = [getter |-> "none", sweep |-> sw, key |-> "none"]
    /\ pc' = "sweep"
    /\ remote' = r
    /\ offset' = 0
    /\ acc' = <<>>
    /\ offsets' = <<>>
    /\ events' = <<>>
    /\ out' = PendingOut
    /\ prev' = NoPrev
    /\ UNCHANGED <<force_album_query, force_liked_artist_query, db_have, db_rows>>

\* a caller runs a getter: the flag is read and the fetch is entered or skipped
StartGetter(g, r) ==
    /\ pc \in {"idle", "done"}
    /\ op' = g
    /\ pc' = IF NeedFetch(g.getter, db_have[g.key]) THEN GetterOrder[1] ELSE "read"
    /\ remote' = r
    /\ offset' = 0
    /\ acc' = <<>>
    /\ offsets' = <<>>
    /\ events' = <<"check">>
    /\ out' = PendingOut
    /\ prev' = IF pc = "done" /\ op = g
               THEN [same |-> TRUE, kind |-> out.kind, rows |-> out.rows, events |-> events]
               ELSE NoPrev
    /\ UNCHANGED <<force_album_query, force_liked_artist_query, db_have, db_rows>>

\* a mutation of OnSweepFailure: the getter goes on with what the sweep had
OnSweepFailure_GoOn == "go_on"

\* what a getter does when its sweep raises: nothing catches the exception
OnSweepFailure == "propagate"

\* one round of the sweep's loop
FetchPage(o) ==
    /\ pc = "sweep"
    /\ offsets' = Append(offsets, offset)
    /\ events' = IF op.getter = "none" THEN events ELSE Append(events, "request")
    /\ IF o = "raise"
       THEN /\ IF op.getter = "none" \/ OnSweepFailure = "propagate"
               THEN pc' = "done" /\ out' = RaisedOut
               ELSE pc' = PcAfter("sweep") /\ out' = out
            /\ UNCHANGED <<offset, acc>>
       ELSE LET page == Page(remote, offset, Limit(op.sweep))
                list == acc \o ExtractPage(op.sweep, remote, page)
            IN  /\ offset' = IF op.sweep = "request_all_artist_albums" THEN offset
                             ELSE offset + Limit(op.sweep)
                /\ IF IsLastPage(op.sweep, page) /\ ~ExtractFails(op.sweep, remote, page)
                   THEN /\ acc' = SweepResult(op.sweep, list)
                        /\ IF op.getter = "none"
                           THEN pc' = "done" /\ out' = ReturnedList(SweepResult(op.sweep, list))
                           ELSE pc' = PcAfter("sweep") /\ out' = out
                   ELSE /\ acc' = list
                        /\ UNCHANGED <<pc, out>>
    /\ UNCHANGED <<force_album_query, force_liked_artist_query, db_have, db_rows,
                   op, remote, prev>>

\* db_manager.store_...(records)
Store ==
    /\ pc = "store"
    /\ db_rows' = DbUpsert(db_rows, op.key, Range(acc))
    /\ events' = Append(events, "store")
    /\ pc' = PcAfter("store")
    /\ UNCHANGED <<force_album_query, force_liked_artist_query, db_have,
                   op, remote, offset, acc, offsets, out, prev>>

\* db_manager.set_have_...(True, should_commit=True)
Mark ==
    /\ pc = "mark"
    /\ db_have' = [db_have EXCEPT ![op.key] = TRUE]
    /\ events' = Append(events, "mark")
    /\ pc' = PcAfter("mark")
    /\ UNCHANGED <<force_album_query, force_liked_artist_query, db_rows,
                   op, remote, offset, acc, offsets, out, prev>>

\* return db_manager.get_...(key)
Read ==
    /\ pc = "read"
    /\ out' = ReturnedRows(GetterValue(db_rows, op.key, acc))
    /\ events' = Append(events, "read")
    /\ pc' = "done"
    /\ UNCHANGED <<force_album_query, force_liked_artist_query, db_have, db_rows,
                   op, remote, offset, acc, offsets, prev>>

\* ------------------------------------------------------------------------
\* RespotTrackHandler.determine_file_extension
\* ------------------------------------------------------------------------
\* bytes are numbers 0..255
MAGIC_LEN == 16
MP3_FB == <<255, 251>>
MP3_FA == <<255, 250>>
RIFF == <<82, 73, 70, 70>>
WAVE == <<87, 65, 86, 69>>
FLAC == <<102, 76, 97, 67>>
OGGS == <<79, 103, 103, 83>>

Min(a, b) == IF a < b THEN a ELSE b

\* a mutation of ReadHead: the whole buffer is read
ReadHead_All(bytes, n) == bytes

\* BytesIO.read(n) from position 0
ReadHead(bytes, n) == SubSeq(bytes, 1, Min(Len(bytes), n))

\* the bytes operator "in"
Contains(s, p) == \E i \in 1..(Len(s) - Len(p) + 1) : SubSeq(s, i, i + Len(p) - 1) = p

\* a mutation of determine_file_extension: the flac rule comes before the wav rule
determine_file_extension_FlacFirst(bytes) ==
    LET magic_bytes == ReadHead(bytes, MAGIC_LEN)
    IN  IF StartsWith(magic_bytes, MP3_FB) \/ StartsWith(magic_bytes, MP3_FA) THEN "mp3"
        ELSE IF StartsWith(magic_bytes, FLAC) THEN "flac"
        ELSE IF Contains(magic_bytes, RIFF) /\ Contains(magic_bytes, WAVE) THEN "wav"
        ELSE IF StartsWith(magic_bytes, OGGS) THEN "ogg"
        ELSE "ValueError"

\* the tag returned, or "ValueError" when the function raises
determine_file_extension(bytes) ==
    LET magic_bytes == ReadHead(bytes, MAGIC_LEN)
    IN  IF StartsWith(magic_bytes, MP3_FB) \/ StartsWith(magic_bytes, MP3_FA) THEN "mp3"
        ELSE IF Contains(magic_bytes, RIFF) /\ Contains(magic_bytes, WAVE) THEN "wav"
        ELSE IF StartsWith(magic_bytes, FLAC) THEN "flac"
        ELSE IF StartsWith(magic_bytes, OGGS) THEN "ogg"
        ELSE "ValueError"

\* ------------------------------------------------------------------------
\* Respot.download and RespotTrackHandler.download_audio
\* ------------------------------------------------------------------------
CHUNK_SIZE == 50000
RETRY_DOWNLOAD == 30

\* a stream holds at most this many whole chunks, plus a part of one
MaxChunks == 2
\* at most this many reads of one download are irregular: a read that
\* returns some bytes but fewer than asked for, or an empty read that a read
\* with data follows
MaxIrregular == 2

\* a stream of at most this many bytes is read with any pattern of reads:
\* the bound on irregular reads is for the longer streams
MaxTrickle == 1

\* the sizes of the streams
TotalSizes ==
    {c * CHUNK_SIZE + r : c \in 0..MaxChunks, r \in {0, 1, CHUNK_SIZE \div 2}}
    \cup 0..MaxTrickle

\* what the streams start with: a magic number or none, then zero bytes
StreamFormats == {"ogg", "junk"}
Magic(fmt) ==
    LET m == IF fmt = "ogg" THEN OGGS ELSE <<>>
    IN  m \o [k \in 1..(MAGIC_LEN - Len(m)) |-> 0]
StreamHead(fmt, total) == SubSeq(Magic(fmt), 1, Min(MAGIC_LEN, total))

\* the values of antiban_wait_time and of download's extension argument
WaitTimes == {0, 5}
Extensions == {"ogg", "mp3", "source"}

\* a mutation of LoopContinues: the loop stops one chunk early
LoopContinues_OneChunkEarly(done, total) == done + CHUNK_SIZE < total

\* the while condition
LoopContinues(done, total) == done < total

\* a mutation of ReadSize: a whole chunk is asked for every time
ReadSize_WholeChunk(done, total) == CHUNK_SIZE

\* remaining and read_size
ReadSize(done, total) == Min(CHUNK_SIZE, total - done)

\* a mutation of StallExceeded: >= for >
StallExceeded_OffByOne(fails) == fails >= RETRY_DOWNLOAD

\* a mutation of StallExceeded: three times the limit
StallExceeded_Late(fails) == fails > 3 * RETRY_DOWNLOAD

\* the test that breaks the loop after an empty read
StallExceeded(fails) == fails > RETRY_DOWNLOAD

\* a mutation of NewFailCount: a read with data leaves the count as it is
NewFailCount_NoReset(fails, got) == IF got = 0 THEN fails + 1 ELSE fails

\* fail_count after a read of got bytes
NewFailCount(fails, got) == IF got = 0 THEN fails + 1 ELSE 0

\* a mutation of NewDownloaded: the size asked for is added
NewDownloaded_Requested(done, got, asked) == done + asked

\* downloaded += len(data)
NewDownloaded(done, got, asked) == done + got

\* a read call and what came of it
ReadCall(size, got, fault) == [size |-> size, got |-> got, fault |-> fault]

\* What stream().read(size) can do: raise IndexError, or return 0 to size
\* bytes (all of them, one, or none).
ReadOutcomes(size) ==
    {ReadCall(size, g, FALSE) : g \in {size, 1, 0}} \cup {ReadCall(size, 0, TRUE)}

\* the bytes the stream has handed out, which is its position
RECURSIVE SumGot(_)
SumGot(rs) == IF rs = <<>> THEN 0 ELSE SumGot(Tail(rs)) + Head(rs).got

ShortReads(rs) == Cardinality({i \in 1..Len(rs) : rs[i].got > 0 /\ rs[i].got < rs[i].size})
EmptyReads(rs) == Cardinality({i \in 1..Len(rs) : rs[i].got = 0 /\ ~rs[i].fault})

\* BytesIO.write(data): data is the stream's bytes from..from+n-1
Write(buf, from, n) == IF n = 0 THEN buf ELSE Append(buf, [from |-> from, n |-> n])

RECURSIVE BufLen(_)
BufLen(buf) == IF buf = <<>> THEN 0 ELSE BufLen(Tail(buf)) + Head(buf).n

\* the stream positions of the first bytes of the buffer
RECURSIVE BufPositions(_)
BufPositions(buf) ==
    IF buf = <<>> THEN <<>>
    ELSE [k \in 1..Min(Head(buf).n, MAGIC_LEN) |-> Head(buf).from + k - 1]
         \o BufPositions(Tail(buf))

\* the first bytes of the buffer
BufHead(buf, head) ==
    LET pos == ReadHead(BufPositions(buf), MAGIC_LEN)
    IN  [k \in 1..Len(pos) |-> head[pos[k] + 1]]

\* download_audio's return value
AudioPending == [kind |-> "pending", buf |-> <<>>]
AudioNone == [kind |-> "None", buf |-> <<>>]
AudioBuffer(buf) == [kind |-> "buffer", buf |-> buf]

\* a mutation of OnIndexError: the loop is left and the buffer returned
OnIndexError_Break == "break"

\* what the except clause for IndexError does
OnIndexError == "return_none"

\* Respot.download's outcome; a path is the sequence of its parts, the empty
\* string has none
EmptyString == <<>>
DlPending == [kind |-> "pending", val |-> <<"none">>]
DlReturned(v) == [kind |-> "return", val |-> v]
DlRaised(e) == [kind |-> "raise", val |-> <<e>>]

\* a mutation of PersistStep: the format found is not tested for the error
PersistStep_NoFormatTest(a, extension, fmt) ==
    IF a.kind = "None" THEN "return_empty"
    ELSE IF extension = fmt THEN "write_direct"
    ELSE IF extension = "source" THEN "write_source"
    ELSE "convert"

\* what Respot.download does with download_audio's value a, whose format
\* determine_file_extension found to be fmt
PersistStep(a, extension, fmt) ==
    IF a.kind = "None" THEN "return_empty"
    ELSE IF fmt = "ValueError" THEN "raise"
    ELSE IF extension = fmt THEN "write_direct"
    ELSE IF extension = "source" THEN "write_source"
    ELSE "convert"

InitDl(waits) ==
    /\ antiban_wait_time \in waits
    /\ total_size = 0
    /\ stream_head = <<>>
    /\ downloaded = 0
    /\ fail_count = 0
    /\ audio_bytes = <<>>
    /\ reads = <<>>
    /\ dl_pc = "idle"
    /\ dl_sleeps = <<>>
    /\ audio = AudioPending
    /\ dl_out = DlPending
    /\ persisted = <<>>

\* Respot.download is called and download_audio has loaded the stream
StartDownload(total, fmt) ==
    /\ dl_pc \in {"idle", "done"}
    /\ total_size' = total
    /\ stream_head' = StreamHead(fmt, total)
    /\ downloaded' = 0
    /\ fail_count' = 0
    /\ audio_bytes' = <<>>
    /\ reads' = <<>>
    /\ dl_pc' = "loop"
    /\ dl_sleeps' = <<>>
    /\ audio' = AudioPending
    /\ dl_out' = DlPending
    /\ persisted' = <<>>
    /\ UNCHANGED antiban_wait_time

\* one round of the while loop; r is the read call and its outcome
ReadChunk(r) ==
    /\ dl_pc = "loop"
    /\ LoopContinues(downloaded, total_size)
    /\ r.size = ReadSize(downloaded, total_size)
    /\ r.got <= r.size
    /\ (total_size > MaxTrickle /\ r.got > 0 /\ r.got < r.size) =>
          ShortReads(reads) + EmptyReads(reads) < MaxIrregular
    /\ (total_size > MaxTrickle /\ r.got > 0 /\ r.got = r.size) =>
          ShortReads(reads) + EmptyReads(reads) <= MaxIrregular
    /\ reads' = Append(reads, r)
    /\ IF r.fault
       THEN IF OnIndexError = "return_none"
            THEN /\ audio' = AudioNone
                 /\ dl_pc' = "persist"
                 /\ UNCHANGED <<downloaded, fail_count, audio_bytes>>
            ELSE /\ dl_pc' = "sleep"
                 /\ UNCHANGED <<audio, downloaded, fail_count, audio_bytes>>
       ELSE /\ fail_count' = NewFailCount(fail_count, r.got)
            /\ IF r.got = 0 /\ StallExceeded(NewFailCount(fail_count, r.got))
               THEN /\ dl_pc' = "sleep"
                    /\ UNCHANGED <<downloaded, audio_bytes>>
               ELSE /\ dl_pc' = "loop"
                    /\ downloaded' = NewDownloaded(downloaded, r.got, r.size)
                    /\ audio_bytes' = Write(audio_bytes, SumGot(reads), r.got)
            /\ UNCHANGED audio
    /\ UNCHANGED <<antiban_wait_time, total_size, stream_head, dl_sleeps, dl_out, persisted>>

\* the while condition is false
ExitLoop ==
    /\ dl_pc = "loop"
    /\ ~LoopContinues(downloaded, total_size)
    /\ dl_pc' = "sleep"
    /\ UNCHANGED <<antiban_wait_time, total_size, stream_head, downloaded, fail_count,
                   audio_bytes, reads, dl_sleeps, audio, dl_out, persisted>>

\* a mutation of SleepsAfterLoop: only a complete download is followed by a sleep
SleepsAfterLoop_OnlyComplete(done, total) == done = total

\* whether the statements after the loop sleep
SleepsAfterLoop(done, total) == TRUE

\* the statements after the loop: sleep, rewind, return the buffer
SleepAndReturn ==
    /\ dl_pc = "sleep"
    /\ dl_sleeps' = IF SleepsAfterLoop(downloaded, total_size)
                    THEN Append(dl_sleeps, antiban_wait_time) ELSE dl_sleeps
    /\ audio' = AudioBuffer(audio_bytes)
    /\ dl_pc' = "persist"
    /\ UNCHANGED <<antiban_wait_time, total_size, stream_head, downloaded, fail_count,
                   audio_bytes, reads, dl_out, persisted>>

\* Respot.download after download_audio has returned; persisted records the
\* file written (bytes_to_file) or converted (convert_audio_format)
Persist(extension) ==
    /\ dl_pc = "persist"
    /\ LET fmt == IF audio.kind = "None" THEN "none"
                  ELSE determine_file_extension(BufHead(audio.buf, stream_head))
           step == PersistStep(audio, extension, fmt)
           file(how, ext) == [how |-> how, len |-> BufLen(audio.buf), ext |-> ext]
       IN  CASE step = "return_empty" ->
                  dl_out' = DlReturned(EmptyString) /\ persisted' = persisted
             [] step = "raise" ->
                  dl_out' = DlRaised("ValueError") /\ persisted' = persisted
             [] step = "write_direct" ->
                  /\ dl_out' = DlReturned(<<"temp_path">>)
                  /\ persisted' = Append(persisted, file("write", extension))
             [] step = "write_source" ->
                  /\ dl_out' = DlReturned(<<"filename", ".", fmt>>)
                  /\ persisted' = Append(persisted, file("write", fmt))
             [] step = "convert" ->
                  /\ dl_out' = DlReturned(<<"filename", ".", extension>>)
                  /\ persisted' = Append(persisted, file("convert", extension))
    /\ dl_pc' = "done"
    /\ UNCHANGED <<antiban_wait_time, total_size, stream_head, downloaded, fail_count,
                   audio_bytes, reads, dl_sleeps, audio>>

\* ------------------------------------------------------------------------
\* determine_file_extension on its own
\* ------------------------------------------------------------------------
\* a buffer is made of at most this many of the pieces below
MaxTokens == 4

\* the pieces: the magic numbers, a lone FF, and runs of zero bytes
SniffTokens == {MP3_FB, MP3_FA, <<255>>, RIFF, WAVE, FLAC, OGGS,
                <<0>>, <<0, 0, 0, 0>>, [k \in 1..12 |-> 0]}

RECURSIVE Concats(_)
Concats(n) ==
    IF n = 0 THEN {<<>>}
    ELSE LET shorter == Concats(n - 1)
         IN  shorter \cup {p \o t : p \in shorter, t \in SniffTokens}

\* the buffers determine_file_extension is given
SniffInputs == Concats(MaxTokens)

InitSniff(inputs) ==
    /\ sniff_in \in inputs
    /\ sniff_out = "pending"

\* determine_file_extension(audio_bytes)
Sniff ==
    /\ sniff_out = "pending"
    /\ sniff_out' = determine_file_extension(sniff_in)
    /\ UNCHANGED sniff_in

\* ------------------------------------------------------------------------
\* Threads sharing one RespotRequest and its RespotAuth
\* ------------------------------------------------------------------------
Threads == {"t1", "t2"}

\* a thread outside authorized_get_request's 401 branch
ThreadIdle == [pc |-> "idle", new_session |-> 0, ret |-> <<NoToken, NoToken>>]

\* the statements of refresh_token, in order, then the two stores of
\* "self.token, self.token_your_library = ..." in the 401 branch
RefreshSteps == <<"create", "store_session", "store_token", "store_token_your_library", "return">>
AssignSteps == <<"assign_token", "assign_token_your_library">>

InitThreads(ts) ==
    /\ threads = [t \in ts |-> ThreadIdle]
    /\ created = 1

\* the variables of one authorized_get_request call, which the threads
\* layer leaves out
callVars == <<cur, stack, result, innerRet, nreq, nfail, nnocontent, sleeps, lastReq, lastResp>>

\* thread t's request came back with 401: it calls self.auth.refresh_token()
Receive401(t) ==
    /\ threads[t].pc = "idle"
    /\ created + Cardinality({u \in Threads : threads[u].pc = "create"}) < 1 + MaxRefresh
    /\ threads' = [threads EXCEPT ![t].pc = RefreshSteps[1]]
    /\ UNCHANGED <<created, session, auth_token, auth_token_your_library, token, token_your_library>>

\* Session.Builder().stored_file(...).create()
CreateSession(t) ==
    /\ threads[t].pc = "create"
    /\ created' = created + 1
    /\ threads' = [threads EXCEPT ![t].pc = "store_session", ![t].new_session = created + 1]
    /\ UNCHANGED <<session, auth_token, auth_token_your_library, token, token_your_library>>

\* self.session = ...
StoreSession(t) ==
    /\ threads[t].pc = "store_session"
    /\ session' = threads[t].new_session
    /\ threads' = [threads EXCEPT ![t].pc = "store_token"]
    /\ UNCHANGED <<created, auth_token, auth_token_your_library, token, token_your_library>>

\* self.token = self.session.tokens().get("user-read-email")
StoreToken(t) ==
    /\ threads[t].pc = "store_token"
    /\ auth_token' = SessionToken("user-read-email", session)
    /\ threads' = [threads EXCEPT ![t].pc = "store_token_your_library"]
    /\ UNCHANGED <<created, session, auth_token_your_library, token, token_your_library>>

\* self.token_your_library = self.session.tokens().get("user-library-read")
StoreTokenYourLibrary(t) ==
    /\ threads[t].pc = "store_token_your_library"
    /\ auth_token_your_library' = SessionToken("user-library-read", session)
    /\ threads' = [threads EXCEPT ![t].pc = "return"]
    /\ UNCHANGED <<created, session, auth_token, token, token_your_library>>

\* return (self.token, self.token_your_library)
ReturnPair(t) ==
    /\ threads[t].pc = "return"
    /\ threads' = [threads EXCEPT ![t].pc = AssignSteps[1],
                                  ![t].ret = <<auth_token, auth_token_your_library>>]
    /\ UNCHANGED <<created, session, auth_token, auth_token_your_library, token, token_your_library>>

\* the first store of the tuple assignment in the 401 branch
AssignToken(t) ==
    /\ threads[t].pc = "assign_token"
    /\ token' = threads[t].ret[1]
    /\ threads' = [threads EXCEPT ![t].pc = AssignSteps[2]]
    /\ UNCHANGED <<created, session, auth_token, auth_token_your_library, token_your_library>>

\* its second store; the thread goes on to retry()
AssignTokenYourLibrary(t) ==
    /\ threads[t].pc = "assign_token_your_library"
    /\ token_your_library' = threads[t].ret[2]
    /\ threads' = [threads EXCEPT ![t] = ThreadIdle]
    /\ UNCHANGED <<created, session, auth_token, auth_token_your_library, token>>

\* ------------------------------------------------------------------------
\* RespotRequest.request_song_lyrics
\* ------------------------------------------------------------------------
Songs == {"song:1", "song:2"}

\* What authorized_get_request hands request_song_lyrics: None, a 404
\* response, or a JSON body: without lyrics.lines, with lines but no syncType,
\* or with lines and a syncType; with LINE_SYNCED the lines may lack
\* startTimeMs.
LyricsResponses == {"None", "404", "no_lines", "no_syncType", "UNSYNCED", "LINE_SYNCED",
                    "LINE_SYNCED_no_startTimeMs", "SYLLABLE_SYNCED"}

NoFile == "none"

\* the file the if/elif on syncType opens
LyricFile(resp) ==
    IF resp = "UNSYNCED" THEN ".txt"
    ELSE IF resp \in {"LINE_SYNCED", "LINE_SYNCED_no_startTimeMs"} THEN ".lrc"
    ELSE NoFile

\* the call returns before the body is looked at, or on the caught KeyError
LyricsEarlyReturn(resp) == resp \in {"None", "404", "no_lines"}

\* a KeyError that nothing catches: on syncType, or on startTimeMs of a line
LyricsRaises(resp) == resp \in {"no_syncType", "LINE_SYNCED_no_startTimeMs"}

NoLyricsCall == [song |-> "none", resp |-> "none", file |-> NoFile, marks |-> FALSE, out |-> "none"]

InitLyrics ==
    /\ lyrics_files = [s \in Songs |-> {}]
    /\ lyrics_downloaded = [s \in Songs |-> FALSE]
    /\ lyrics_call = NoLyricsCall

\* one call of request_song_lyrics(song_id, file_path)
request_song_lyrics(song_id, resp) ==
    LET file == IF LyricsEarlyReturn(resp) \/ resp = "no_syncType" THEN NoFile
                ELSE LyricFile(resp)
        marks == ~LyricsEarlyReturn(resp) /\ ~LyricsRaises(resp)
    IN  /\ lyrics_files' = IF file = NoFile THEN lyrics_files
                           ELSE [lyrics_files EXCEPT ![song_id] = @ \cup {file}]
        /\ lyrics_downloaded' = IF marks THEN [lyrics_downloaded EXCEPT ![song_id] = TRUE]
                                ELSE lyrics_downloaded
        /\ lyrics_call' = [song |-> song_id, resp |-> resp, file |-> file, marks |-> marks,
                           out |-> IF LyricsRaises(resp) THEN "raise" ELSE "return"]

\* ------------------------------------------------------------------------
\* Specifications
\* ------------------------------------------------------------------------
\* the layers a specification leaves alone
InitRest == InitDl({0}) /\ InitThreads({}) /\ InitSniff({<<>>}) /\ InitLyrics
restVars == <<dlVars, thrVars, sniffVars, lyricVars>>

Init == InitRequest({"stored", "user_pass"}) /\ InitSync({FALSE}) /\ InitRest

Next ==
    \/ \E inp \in CallInputs : Call(inp) /\ UNCHANGED <<syncVars, restVars>>
    \/ \E o \in Outcomes : Attempt(o) /\ UNCHANGED <<syncVars, restVars>>
    \/ TooManyRetries /\ UNCHANGED <<syncVars, restVars>>

Spec == Init /\ [][Next]_vars

\* the paged sweeps, each run on its own
InitSweep == InitRequest({"stored"}) /\ InitSync({FALSE}) /\ InitRest

NextSweep ==
    \/ \E sw \in PagedSweeps : \E r \in Remotes(sw) : StartSweep(sw, r) /\ UNCHANGED <<reqVars, restVars>>
    \/ \E o \in PageOutcomes : FetchPage(o) /\ UNCHANGED <<reqVars, restVars>>

SpecSweep == InitSweep /\ [][NextSweep]_vars

\* the cache-gated getters
InitCache == InitRequest({"stored"}) /\ InitSync(BOOLEAN) /\ InitRest

NextCache ==
    \/ \E g \in GetterCalls : \E r \in GetterRemotes(g.sweep) : StartGetter(g, r) /\ UNCHANGED <<reqVars, restVars>>
    \/ \E o \in PageOutcomes : FetchPage(o) /\ UNCHANGED <<reqVars, restVars>>
    \/ Store /\ UNCHANGED <<reqVars, restVars>>
    \/ Mark /\ UNCHANGED <<reqVars, restVars>>
    \/ Read /\ UNCHANGED <<reqVars, restVars>>

SpecCache == InitCache /\ [][NextCache]_vars

\* request_all_playlist_artists on its own
NextArtists ==
    \/ \E r \in ArtistRemotes : StartSweep("request_all_playlist_artists", r) /\ UNCHANGED <<reqVars, restVars>>
    \/ \E o \in PageOutcomes : FetchPage(o) /\ UNCHANGED <<reqVars, restVars>>

SpecArtists == InitSweep /\ [][NextArtists]_vars

\* Respot.download
InitDownload ==
    /\ InitRequest({"stored"}) /\ InitSync({FALSE})
    /\ InitDl(WaitTimes) /\ InitThreads({}) /\ InitSniff({<<>>}) /\ InitLyrics

NextDownload ==
    \/ \E total \in TotalSizes : \E fmt \in StreamFormats :
          StartDownload(total, fmt) /\ UNCHANGED <<reqVars, syncVars, thrVars, sniffVars, lyricVars>>
    \/ \E r \in ReadOutcomes(ReadSize(downloaded, total_size)) :
          ReadChunk(r) /\ UNCHANGED <<reqVars, syncVars, thrVars, sniffVars, lyricVars>>
    \/ ExitLoop /\ UNCHANGED <<reqVars, syncVars, thrVars, sniffVars, lyricVars>>
    \/ SleepAndReturn /\ UNCHANGED <<reqVars, syncVars, thrVars, sniffVars, lyricVars>>
    \/ \E extension \in Extensions :
          Persist(extension) /\ UNCHANGED <<reqVars, syncVars, thrVars, sniffVars, lyricVars>>

SpecDownload == InitDownload /\ [][NextDownload]_vars

\* download_audio's loop keeps running as long as the read calls return
DownloadLoop ==
    \/ \E r \in ReadOutcomes(ReadSize(downloaded, total_size)) :
          ReadChunk(r) /\ UNCHANGED <<reqVars, syncVars, thrVars, sniffVars, lyricVars>>
    \/ ExitLoop /\ UNCHANGED <<reqVars, syncVars, thrVars, sniffVars, lyricVars>>

SpecDownloadLive == SpecDownload /\ WF_vars(DownloadLoop)

\* threads refreshing the tokens of one client
InitThreadsSpec ==
    /\ InitRequest({"stored"}) /\ InitSync({FALSE})
    /\ InitDl({0}) /\ InitThreads(Threads) /\ InitSniff({<<>>}) /\ InitLyrics

NextThreads ==
    \E t \in Threads :
        \/ Receive401(t) /\ UNCHANGED <<callVars, syncVars, dlVars, sniffVars, lyricVars>>
        \/ CreateSession(t) /\ UNCHANGED <<callVars, syncVars, dlVars, sniffVars, lyricVars>>
        \/ StoreSession(t) /\ UNCHANGED <<callVars, syncVars, dlVars, sniffVars, lyricVars>>
        \/ StoreToken(t) /\ UNCHANGED <<callVars, syncVars, dlVars, sniffVars, lyricVars>>
        \/ StoreTokenYourLibrary(t) /\ UNCHANGED <<callVars, syncVars, dlVars, sniffVars, lyricVars>>
        \/ ReturnPair(t) /\ UNCHANGED <<callVars, syncVars, dlVars, sniffVars, lyricVars>>
        \/ AssignToken(t) /\ UNCHANGED <<callVars, syncVars, dlVars, sniffVars, lyricVars>>
        \/ AssignTokenYourLibrary(t) /\ UNCHANGED <<callVars, syncVars, dlVars, sniffVars, lyricVars>>

SpecThreads == InitThreadsSpec /\ [][NextThreads]_vars

\* determine_file_extension
InitSniffSpec ==
    /\ InitRequest({"stored"}) /\ InitSync({FALSE})
    /\ InitDl({0}) /\ InitThreads({}) /\ InitSniff(SniffInputs) /\ InitLyrics

NextSniff == Sniff /\ UNCHANGED <<reqVars, syncVars, dlVars, thrVars, lyricVars>>

SpecSniff == InitSniffSpec /\ [][NextSniff]_vars

\* request_song_lyrics
NextLyrics ==
    \E song_id \in Songs : \E resp \in LyricsResponses :
        request_song_lyrics(song_id, resp) /\ UNCHANGED <<reqVars, syncVars, dlVars, thrVars, sniffVars>>

SpecLyrics == InitSweep /\ [][NextLyrics]_vars

\* ------------------------------------------------------------------------
\* Claims about authorized_get_request
\* ------------------------------------------------------------------------
\* a call has handed its caller a value or an exception
Done == result.kind \in {"return", "raise"}

\* the spec's success condition on a response
SuccessCondition(r) ==
    /\ r.status >= 200 /\ r.status < 400
    /\ r.status # 204
    /\ r.ctype = "application/json" => r.body = "data"

\* the outcome of an attempt is a success: a response with a content type
\* that meets the success condition
Succeeded(o) == o.exc = "none" /\ o.resp.ctype # "missing" /\ SuccessCondition(o.resp)

\* C1: when the first k >= 1 attempts of a call are transient failures and
\* attempt k+1 succeeds, the call returns that successful response.
C1_RetriedSuccessIsReturned ==
    (Done /\ nfail >= 1 /\ nreq = nfail + 1 /\ Succeeded(lastResp))
        => result = Returned(lastResp.resp)

\* C2: a call whose every attempt is a transient failure issues exactly
\* MAX_AUTH_GET_RETRIES + 1 requests and then raises the "too many retries"
\* RuntimeError to its caller; no call issues more than that many requests.
C2_RetryCeiling ==
    /\ nreq <= MAX_AUTH_GET_RETRIES + 1
    /\ (Done /\ nfail = nreq) => (result = Raised("RuntimeError") /\ nreq = MAX_AUTH_GET_RETRIES + 1)
    /\ result = Raised("RuntimeError") => (nfail = nreq /\ nreq = MAX_AUTH_GET_RETRIES + 1)

C2_Witness ==
    /\ result = Raised("RuntimeError")
    /\ nreq = MAX_AUTH_GET_RETRIES + 1
    /\ nnocontent >= 1
    /\ session > 1

\* C3: an attempt that receives 401 calls refresh_token exactly once before
\* the next attempt, both stored tokens become the pair of that refresh, the
\* attempt consumes one unit of the retry budget, every request issued after
\* a refresh carries a token of the latest refresh, and no step other than a
\* 401 attempt refreshes or changes the stored tokens.
C3_RefreshOn401 ==
    [][ /\ (nreq' = nreq + 1 /\ lastResp'.resp.status = 401) =>
            /\ session' = session + 1
            /\ <<token', token_your_library'>> = RefreshedPair(session')
            /\ stack' # <<>>
            /\ stack'[Len(stack')].retry_count = lastReq'.retry_count + 1
            /\ stack'[Len(stack')].pc = "start"
        /\ ~(nreq' = nreq + 1 /\ lastResp'.resp.status = 401) =>
            /\ session' = session
            /\ token' = token
            /\ token_your_library' = token_your_library
        /\ (nreq' = nreq + 1 /\ session > 1) =>
            /\ lastReq'.auth \in {RefreshedPair(session)[1], RefreshedPair(session)[2]}
      ]_vars

C3_Witness ==
    /\ nreq >= 2
    /\ session = 3
    /\ lastReq.auth.gen = 3
    /\ lastReq.retry_count >= 2

\* C4: every response a call returns, other than a 404 response, meets the
\* success condition; a 204 or an empty JSON body is never returned.
C4_ReturnedMeetsSuccessCondition ==
    (result.kind = "return" /\ result.val # NoResp /\ result.val.status # 404)
        => SuccessCondition(result.val)

\* C5: the invocation that receives a 404 returns that response at once: no
\* further request, no sleep, no refresh, and no invocation with a higher
\* attempt counter follows.
C5_NotFoundReturnedAtOnce ==
    [][ (nreq' = nreq + 1 /\ lastResp'.resp.status = 404) =>
            /\ innerRet' = Returned(lastResp'.resp)
            /\ stack' = <<>>
            /\ Done'
            /\ sleeps' = sleeps
            /\ nfail' = nfail
            /\ session' = session
            /\ <<token', token_your_library'>> = <<token, token_your_library>>
      ]_vars

C5_Witness ==
    /\ lastResp.resp.status = 404
    /\ innerRet = Returned(R404)
    /\ nreq >= 2
    /\ Done

\* C6: the wait before the retry that follows failed attempt i is
\* i * AUTH_GET_RETRY_MULTIPLE_SEC, and every request of a call has the
\* call's url, keyword params and extra headers, the attempt counter going
\* up by one per retry.
C6_LinearBackoffSameRequest ==
    /\ Len(sleeps) = nfail
    /\ \A i \in 1..Len(sleeps) : sleeps[i] = (i - 1) * AUTH_GET_RETRY_MULTIPLE_SEC
    /\ \A j \in 1..Len(stack) :
        /\ stack[j].retry_count = j - 1
        /\ stack[j].url = cur.url
        /\ stack[j].params = cur.params
        /\ stack[j].add_header = cur.add_header
    /\ nreq > 0 =>
        /\ lastReq.retry_count = nreq - 1
        /\ lastReq.url = cur.url
        /\ lastReq.params = cur.params
        /\ lastReq.add_header = cur.add_header

C6_Witness ==
    /\ Len(sleeps) = MAX_AUTH_GET_RETRIES + 1
    /\ sleeps[1] = 0
    /\ sleeps[MAX_AUTH_GET_RETRIES + 1] = 100
    /\ cur.add_header = LyricHeader

\* C7: a request carries the library token exactly when its url starts with
\* API_ME or LYRIC_API and the catalog token otherwise, on every attempt,
\* before and after a refresh.
C7_TokenMatchesAudience ==
    [][ nreq' = nreq + 1 =>
          LET lib == StartsWith(lastReq'.url, API_ME) \/ StartsWith(lastReq'.url, LYRIC_API)
          IN  /\ lastReq'.auth = IF lib THEN token_your_library ELSE token
              /\ lastReq'.auth # NoToken =>
                    (lastReq'.auth.scope = "user-library-read" <=> lib)
              /\ lastReq'.auth # NoToken =>
                    (lastReq'.auth.scope = "user-read-email" <=> ~lib)
      ]_vars

C7_Witness ==
    /\ nreq >= 2
    /\ session > 1
    /\ StartsWith(lastReq.url, LYRIC_API)
    /\ lastReq.auth = SessionToken("user-library-read", session)
    /\ lastResp.resp.status # 401

\* ------------------------------------------------------------------------
\* Claims about the paginated sweeps
\* ------------------------------------------------------------------------
\* the ids 1..n in order
Ids(n) == [k \in 1..n |-> k]

\* a paged sweep run on its own has returned
SweepReturned == op.getter = "none" /\ op.sweep \in PagedSweeps /\ pc = "done" /\ out.kind = "return"

\* the requests of a sweep go to offsets 0, L, 2L, ... in this order
OffsetsInOrder == \A i \in 1..Len(offsets) : offsets[i] = (i - 1) * Limit(op.sweep)

\* C8 as stated: the offsets are 0, L, 2L, ..., the sweep issues exactly
\* floor(T/L) + 1 requests, and the result is the items of all pages
\* concatenated in arrival order.
C8_SweepReturnsAllItems ==
    /\ op.sweep \in PagedSweeps => OffsetsInOrder
    /\ SweepReturned =>
        /\ Len(offsets) = (remote.T \div Limit(op.sweep)) + 1
        /\ out.list = Ids(remote.T)

\* C8 as amended: as above, except that get_playlist_songs leaves out the
\* items whose track is null (they still count towards the page length).
C8_SweepReturnsAllItemsWithTrack ==
    /\ op.sweep \in PagedSweeps => OffsetsInOrder
    /\ SweepReturned =>
        /\ Len(offsets) = (remote.T \div Limit(op.sweep)) + 1
        /\ out.list = IF op.sweep = "get_playlist_songs"
                      THEN SelectSeq(Ids(remote.T), LAMBDA i : i # remote.special)
                      ELSE Ids(remote.T)

C8_Witness ==
    /\ SweepReturned
    /\ op.sweep = "get_playlist_songs"
    /\ remote.T = LIMIT_PLAYLIST_SONGS
    /\ remote.special = LIMIT_PLAYLIST_SONGS
    /\ offsets = <<0, LIMIT_PLAYLIST_SONGS>>
    /\ Len(out.list) = LIMIT_PLAYLIST_SONGS - 1

\* ------------------------------------------------------------------------
\* Claims about the cache-gated getters
\* ------------------------------------------------------------------------
\* the force switch of a getter, if it has one
Forced(getter) ==
    \/ getter = "get_artist_albums" /\ force_album_query
    \/ getter = "get_all_liked_artists" /\ force_liked_artist_query

Count(seq, e) == Cardinality({i \in 1..Len(seq) : seq[i] = e})

\* the call before this one was the same getter on the same key, it fetched
\* (the key was not cached) and returned, and the getter is not forced
SecondCallInARow ==
    /\ op.getter # "none"
    /\ prev.same
    /\ prev.kind = "return"
    /\ Count(prev.events, "request") >= 1
    /\ ~Forced(op.getter)

\* C9: of two calls in a row of a getter on the same, uncached key with force
\* off, the first runs exactly one request/store/mark cycle, the second
\* issues no request, stores nothing and returns the same data.
C9_SecondCallServedFromCache ==
    SecondCallInARow =>
        /\ Count(prev.events, "store") = 1
        /\ Count(prev.events, "mark") = 1
        /\ pc \in {"read", "done"}
        /\ offsets = <<>>
        /\ Count(events, "store") = 0
        /\ Count(events, "mark") = 0
        /\ pc = "done" => out = ReturnedRows(prev.rows)

C9_Witness ==
    /\ SecondCallInARow
    /\ pc = "done"
    /\ op.getter = "get_album_songs"
    /\ Cardinality(out.rows) = LIMIT + 1
    /\ events = <<"check", "read">>

\* the steps of a getter call that fetches with n requests
FetchEvents(n) == <<"check">> \o [k \in 1..n |-> "request"] \o <<"store", "mark", "read">>

IsPrefix(a, b) == Len(a) <= Len(b) /\ SubSeq(b, 1, Len(a)) = a

\* C10: in a getter call that fetches, the sweep completes, then the records
\* are stored, then the flag is set, then the cache is read; the value
\* returned is that read of the cache.
C10_StoreMarkReadOrder ==
    op.getter # "none" =>
        /\ \/ IsPrefix(events, <<"check", "read">>)
           \/ IsPrefix(events, FetchEvents(Len(offsets)))
        /\ (pc = "done" /\ out.kind = "return") =>
            /\ events[Len(events)] = "read"
            /\ out = ReturnedRows(db_rows[op.key])
            /\ Len(offsets) >= 1 => events = FetchEvents(Len(offsets))
            /\ Len(offsets) >= 1 => db_have[op.key] /\ Range(acc) \subseteq out.rows

C10_Witness ==
    /\ op.getter = "get_all_liked_artists"
    /\ pc = "done"
    /\ out.kind = "return"
    /\ events = FetchEvents(1)
    /\ out.rows # Range(acc)

\* the records of a remote list, as the getter's sweep would store them
RemoteRows(sweep, r) ==
    IF sweep = "request_all_playlist_artists" THEN {ArtistOf(i) : i \in 1..r.T} ELSE 1..r.T

\* C11: a getter sets the complete flag of its key only after its sweep has
\* requested every page of the remote list up to a short page (offsets 0, L,
\* ..., floor(T/L) * L), and once the flag is set the cache holds every item
\* of that list.
C11_CompleteMeansEveryPageCached ==
    (op.getter # "none" /\ Count(events, "mark") >= 1) =>
        /\ offsets = [k \in 1..((remote.T \div LIMIT) + 1) |-> (k - 1) * LIMIT]
        /\ db_have[op.key]
        /\ RemoteRows(op.sweep, remote) \subseteq db_rows[op.key]

\* a step that enters a getter
GetterEntered == op'.getter # "none" /\ events' = <<"check">> /\ events # <<"check">>

\* C12: a getter entered with its key complete and its force switch off goes
\* straight to the cache read: no request, no store, no mark, the cache is
\* left as it was.  With force_album_query on every get_artist_albums call
\* sweeps, stores and marks whatever the flag says, with
\* force_liked_artist_query on every get_all_liked_artists call does; each
\* switch acts on its own getter only and get_album_songs follows the flag
\* alone.
C12_CompleteSkipsForceRefetches ==
    /\ [][ GetterEntered =>
             /\ (db_have[op'.key] /\ ~Forced(op'.getter)) => pc' = "read"
             /\ op'.getter = "get_artist_albums" =>
                    (pc' = "sweep" <=> (~db_have[op'.key] \/ force_album_query))
             /\ op'.getter = "get_all_liked_artists" =>
                    (pc' = "sweep" <=> (~db_have[op'.key] \/ force_liked_artist_query))
             /\ op'.getter = "get_album_songs" => (pc' = "sweep" <=> ~db_have[op'.key])
             /\ pc' \in {"sweep", "read"}
             /\ db_have' = db_have /\ db_rows' = db_rows
         ]_vars
    /\ [][ (op.getter # "none" /\ pc = "read" /\ events = <<"check">>) =>
             /\ offsets' = <<>> /\ events' = <<"check", "read">> /\ pc' = "done"
             /\ db_have' = db_have /\ db_rows' = db_rows
             /\ out' = ReturnedRows(db_rows[op.key])
         ]_vars
    /\ []( (op.getter # "none" /\ Len(events) >= 2 /\ events[2] = "request"
            /\ pc = "done" /\ out.kind = "return") =>
              /\ events = FetchEvents(Len(offsets))
              /\ db_have[op.key]
              /\ Range(acc) \subseteq db_rows[op.key] )

C12_Witness ==
    /\ op.getter = "get_artist_albums"
    /\ force_album_query /\ ~force_liked_artist_query
    /\ prev.same /\ prev.kind = "return" /\ Count(prev.events, "mark") = 1
    /\ pc = "done" /\ out.kind = "return"
    /\ events = FetchEvents(1)
    /\ db_have["liked"] /\ db_have["album:1"]

\* ------------------------------------------------------------------------
\* Claims about Respot.download and download_audio
\* ------------------------------------------------------------------------
\* download_audio has come back to Respot.download
AudioReturned == dl_pc \in {"persist", "done"}

\* every read so far returned exactly the bytes asked for, and at least one
ExactReads == \A i \in 1..Len(reads) :
                  ~reads[i].fault /\ reads[i].got = reads[i].size /\ reads[i].got > 0

\* every read so far returned no bytes, without a fault
OnlyEmptyReads == \A i \in 1..Len(reads) : ~reads[i].fault /\ reads[i].got = 0

\* the number of chunks of a stream of s bytes
Chunks(s) == (s + CHUNK_SIZE - 1) \div CHUNK_SIZE

\* the bytes from..to-1 of the stream, cut into chunks
ChunkedBuffer(s) == [i \in 1..Chunks(s) |->
                        [from |-> (i - 1) * CHUNK_SIZE,
                         n |-> Min(CHUNK_SIZE, s - (i - 1) * CHUNK_SIZE)]]

\* C13: on a stream of S bytes whose reads return exactly what was asked
\* for, download_audio reads ceil(S / CHUNK_SIZE) times, read i asking for
\* min(CHUNK_SIZE, bytes remaining), and returns the S bytes of the stream
\* in order.
C13_ExactReadsGiveWholeStream ==
    (dl_pc # "idle" /\ ExactReads) =>
        /\ Len(reads) <= Chunks(total_size)
        /\ \A i \in 1..Len(reads) :
              reads[i].size = Min(CHUNK_SIZE, total_size - (i - 1) * CHUNK_SIZE)
        /\ AudioReturned =>
              /\ Len(reads) = Chunks(total_size)
              /\ audio = AudioBuffer(ChunkedBuffer(total_size))
              /\ BufLen(audio.buf) = total_size

C13_Witness ==
    /\ dl_pc = "done"
    /\ total_size = 125000
    /\ reads = <<ReadCall(50000, 50000, FALSE), ReadCall(50000, 50000, FALSE),
                 ReadCall(25000, 25000, FALSE)>>
    /\ audio.kind = "buffer"
    /\ BufLen(audio.buf) = 125000

\* C14: on a stream of more than zero bytes whose every read is empty,
\* download_audio stops after exactly RETRY_DOWNLOAD + 1 reads and returns
\* a buffer (not None) shorter than the stream.
C14_StallEndsAfterLimit ==
    (dl_pc # "idle" /\ total_size > 0 /\ OnlyEmptyReads) =>
        /\ Len(reads) <= RETRY_DOWNLOAD + 1
        /\ dl_pc = "loop" <=> Len(reads) < RETRY_DOWNLOAD + 1
        /\ AudioReturned =>
              /\ Len(reads) = 31
              /\ audio.kind = "buffer"
              /\ BufLen(audio.buf) < total_size

C14_Witness ==
    /\ dl_pc = "done"
    /\ total_size = 125000
    /\ OnlyEmptyReads
    /\ Len(reads) = 31
    /\ audio = AudioBuffer(<<>>)

\* C15: in the download loop downloaded <= total_size, the buffer holds
\* exactly downloaded bytes, and every read (each is the latest read in the
\* state that follows it) asks for min(CHUNK_SIZE, total_size - downloaded)
\* bytes, downloaded being the bytes read before it, which is at least 1.
C15_LoopInvariant ==
    /\ downloaded <= total_size
    /\ BufLen(audio_bytes) = downloaded
    /\ SumGot(reads) = downloaded
    /\ reads # <<>> =>
          LET last == reads[Len(reads)]
              before == SumGot(SubSeq(reads, 1, Len(reads) - 1))
          IN  /\ last.size = Min(CHUNK_SIZE, total_size - before)
              /\ last.size >= 1
              /\ before < total_size

C15_Witness ==
    /\ dl_pc = "loop"
    /\ downloaded = total_size
    /\ total_size > CHUNK_SIZE
    /\ ShortReads(reads) = 1
    /\ EmptyReads(reads) = 1
    /\ reads[Len(reads)].size < CHUNK_SIZE - 1

\* C16: a read that raises IndexError is the last read of the download,
\* download_audio returns None whatever it had accumulated, and
\* Respot.download returns the empty string with no file written or
\* converted.
C16_FaultAbortsDownload ==
    /\ \A i \in 1..Len(reads) :
          reads[i].fault => (i = Len(reads) /\ AudioReturned /\ audio = AudioNone)
    /\ (audio = AudioNone /\ dl_pc = "done") =>
          (dl_out = DlReturned(EmptyString) /\ persisted = <<>>)
    /\ audio = AudioNone => (reads # <<>> /\ reads[Len(reads)].fault)

C16_Witness ==
    /\ dl_pc = "done"
    /\ audio = AudioNone
    /\ downloaded = 2 * CHUNK_SIZE
    /\ fail_count = 1
    /\ dl_out = DlReturned(EmptyString)

\* the loop was left by its condition or by the empty-read limit
LoopExited == AudioReturned /\ (reads = <<>> \/ ~reads[Len(reads)].fault)

\* C17: a download_audio call whose loop ends by completion or by the
\* empty-read limit sleeps exactly once, for antiban_wait_time, after its
\* last read and before it returns the buffer, complete or not.
C17_SleepsOnceBeforeReturn ==
    /\ []( /\ dl_pc \in {"loop", "sleep"} => (dl_sleeps = <<>> /\ audio = AudioPending)
           /\ dl_pc = "sleep" => (downloaded = total_size \/ fail_count > RETRY_DOWNLOAD)
           /\ LoopExited => (dl_sleeps = <<antiban_wait_time>> /\ audio = AudioBuffer(audio_bytes)) )
    /\ [][ dl_pc = "sleep" =>
             /\ dl_sleeps' = <<antiban_wait_time>>
             /\ reads' = reads
             /\ audio' = AudioBuffer(audio_bytes)
             /\ dl_pc' = "persist"
         ]_vars
    /\ [][ (dl_sleeps # <<>> /\ dl_pc' # "loop") => (reads' = reads /\ dl_sleeps' = dl_sleeps) ]_vars

C17_Witness ==
    /\ dl_pc = "done"
    /\ antiban_wait_time = 5
    /\ dl_sleeps = <<5>>
    /\ fail_count > RETRY_DOWNLOAD
    /\ downloaded > 0 /\ downloaded < total_size

\* C18: Respot.download writes or converts at most one file per call; the
\* buffer it persists is shorter than the stream only when download_audio
\* left its loop by the empty-read limit, and has total_size bytes
\* otherwise.
C18_ShortBufferOnlyAfterStall ==
    /\ Len(persisted) <= 1
    /\ \A i \in 1..Len(persisted) :
          /\ persisted[i].len <= total_size
          /\ persisted[i].len < total_size => fail_count > RETRY_DOWNLOAD
          /\ audio.kind = "buffer"

C18_Witness ==
    /\ dl_pc = "done"
    /\ Len(persisted) = 1
    /\ persisted[1].how = "convert"
    /\ persisted[1].len = CHUNK_SIZE
    /\ total_size = 125000
    /\ fail_count = RETRY_DOWNLOAD + 1

\* ------------------------------------------------------------------------
\* Claims about threads sharing one client
\* ------------------------------------------------------------------------
\* the threads inside refresh_token
Refreshing == {t \in Threads : threads[t].pc \in Range(RefreshSteps)}

\* no thread is in the 401 branch
Quiescent == \A t \in Threads : threads[t].pc = "idle"

\* C19: with several threads on one client, at most one thread is inside
\* refresh_token at a time, and the stored pair (token, token_your_library)
\* is the pair of one single refresh: both tokens come from the same session.
C19_RefreshExclusivePairAtomic ==
    /\ Cardinality(Refreshing) <= 1
    /\ Quiescent => token.gen = token_your_library.gen

\* ------------------------------------------------------------------------
\* Claims about determine_file_extension
\* ------------------------------------------------------------------------
\* byte k of the buffer is among the bytes the function reads
InHead(k) == k >= 1 /\ k <= Len(sniff_in) /\ k <= 16

\* the bytes read hold p at offset i
HeadHasAt(p, i) == \A k \in 1..Len(p) : InHead(i + k) /\ sniff_in[i + k] = p[k]

HeadStartsWith(p) == HeadHasAt(p, 0)
HeadHas(p) == \E i \in 0..15 : HeadHasAt(p, i)

\* C20: over the first 16 bytes, in this order: a head starting with FF FB or
\* FF FA gives mp3; else one holding both RIFF and WAVE gives wav; else one
\* starting with fLaC gives flac; else one starting with OggS gives ogg; else
\* the function raises.  The four canonical heads give their own tags and the
\* empty buffer raises.
C20_RulesInOrder ==
    sniff_out # "pending" =>
        /\ sniff_out =
             IF HeadStartsWith(<<255, 251>>) \/ HeadStartsWith(<<255, 250>>) THEN "mp3"
             ELSE IF HeadHas(<<82, 73, 70, 70>>) /\ HeadHas(<<87, 65, 86, 69>>) THEN "wav"
             ELSE IF HeadStartsWith(<<102, 76, 97, 67>>) THEN "flac"
             ELSE IF HeadStartsWith(<<79, 103, 103, 83>>) THEN "ogg"
             ELSE "ValueError"
        /\ sniff_in = <<255, 251, 0>> => sniff_out = "mp3"
        /\ sniff_in = <<82, 73, 70, 70, 0, 0, 0, 0, 87, 65, 86, 69>> => sniff_out = "wav"
        /\ sniff_in = <<102, 76, 97, 67, 0>> => sniff_out = "flac"
        /\ sniff_in = <<79, 103, 103, 83, 0>> => sniff_out = "ogg"
        /\ sniff_in = <<>> => sniff_out = "ValueError"

C20_Witness ==
    /\ sniff_out = "wav"
    /\ HeadStartsWith(<<102, 76, 97, 67>>)
    /\ Len(sniff_in) = 12

\* buffers that agree with the one given on their first 16 bytes: its first
\* 16 bytes alone, and those bytes followed by each of the pieces
SameHead == LET h == SubSeq(sniff_in, 1, IF Len(sniff_in) < 16 THEN Len(sniff_in) ELSE 16)
            IN  {h} \cup (IF Len(h) = 16 THEN {h \o t : t \in SniffTokens} ELSE {})

\* C21: the outcome of determine_file_extension is the same for any two
\* buffers that agree on their first 16 bytes, whatever lies beyond byte 16,
\* and the call leaves the buffer's contents as they were.
C21_OnlyFirst16BytesCount ==
    /\ [](sniff_out # "pending" =>
            \A other \in SameHead : determine_file_extension(other) = sniff_out)
    /\ [][sniff_in' = sniff_in]_vars

C21_Witness ==
    /\ sniff_in = [k \in 1..12 |-> 0] \o <<82, 73, 70, 70>> \o <<87, 65, 86, 69>>
    /\ sniff_out = "ValueError"

ArtistsSweep == op.getter = "none" /\ op.sweep = "request_all_playlist_artists"
ArtistsReturned == ArtistsSweep /\ pc = "done" /\ out.kind = "return"

StrictlyAscending(list) == \A k \in 1..(Len(list) - 1) : list[k] < list[k + 1]

\* the items of the remote list that carry a first-listed artist
WithArtist(r) == {i \in 1..r.T : i # r.special}

\* the items the sweep reaches: on the page of the item that lacks a key, only
\* those listed before it
Reached(r) ==
    {i \in WithArtist(r) :
        r.special = 0 \/ i < r.special \/ (i - 1) \div LIMIT # (r.special - 1) \div LIMIT}

\* C22 as stated: the list returned by request_all_playlist_artists is strictly
\* ascending (so no pair occurs twice) and holds the first-listed artist of
\* every item seen on any page.
C22_SortedDistinctAllSeen ==
    ArtistsReturned =>
        /\ StrictlyAscending(out.list)
        /\ Range(out.list) = {ArtistOf(i) : i \in WithArtist(remote)}

\* C22 amended: the list returned by request_all_playlist_artists is strictly
\* ascending (so no pair occurs twice) and holds exactly the first-listed
\* artists of the items it reached: every item of every page, except that on a
\* page with an item lacking a key the items from that one on are left out.
C22_SortedDistinctAllReached ==
    ArtistsReturned =>
        /\ StrictlyAscending(out.list)
        /\ Range(out.list) = {ArtistOf(i) : i \in Reached(remote)}

C22_Witness ==
    /\ ArtistsReturned
    /\ remote = [T |-> 2 * LIMIT - 1, special |-> LIMIT + 1]
    /\ out.list = <<1, 2, 3, 4, 5>>
    /\ Len(acc) = 5

\* C27: request_all_playlist_artists issues no request after the first page
\* with fewer than limit items, also when extraction fails on a page; it
\* returns, and the artists extracted before a failing item are in the result.
C27_StopsAfterFirstShortPage ==
    ArtistsSweep =>
        /\ Len(offsets) <= (remote.T \div LIMIT) + 1
        /\ ArtistsReturned =>
              {ArtistOf(i) : i \in Reached(remote)} \subseteq Range(out.list)

\* the number of empty reads at the end of rs
RECURSIVE TrailingEmpties(_)
TrailingEmpties(rs) ==
    IF rs = <<>> THEN 0
    ELSE LET last == rs[Len(rs)]
         IN  IF last.got # 0 \/ last.fault THEN 0
             ELSE 1 + TrailingEmpties(SubSeq(rs, 1, Len(rs) - 1))

\* C23: fail_count is the number of empty reads since the last read with
\* data (a read with data sets it to 0), and download_audio gives up on an
\* unfinished stream only when the last RETRY_DOWNLOAD + 1 reads in a row were
\* empty, however many empty reads came before them.
C23_DataReadResetsFailCount ==
    (dl_pc # "idle" /\ (reads = <<>> \/ ~reads[Len(reads)].fault)) =>
        /\ fail_count = TrailingEmpties(reads)
        /\ fail_count <= RETRY_DOWNLOAD + 1
        /\ (dl_pc # "loop" /\ downloaded < total_size) => fail_count = RETRY_DOWNLOAD + 1

C23_Witness ==
    /\ LoopExited
    /\ downloaded > 0
    /\ downloaded < total_size
    /\ EmptyReads(reads) > RETRY_DOWNLOAD + 1
    /\ TrailingEmpties(reads) = RETRY_DOWNLOAD + 1

\* a getter call has ended with the exception of its sweep
GetterFailed == op.getter # "none" /\ pc = "done" /\ out.kind = "raise"

\* a round of the sweep in which the request raised: a request went out and
\* no page was taken in (the lists given to the getters have a first item)
RequestRaised == Len(offsets') = Len(offsets) + 1 /\ offset' = offset /\ acc' = acc

\* C24: when the sweep of a getter raises, the call ends there with the
\* exception: no record is stored and the complete flag is not written, in
\* that step or earlier in the call; the next call of the getter on that key
\* enters the sweep again and its first request is for offset 0.
C24_FailedSweepLeavesCacheAlone ==
    /\ [][ (op.getter # "none" /\ pc = "sweep") =>
              /\ db_have' = db_have /\ db_rows' = db_rows
              /\ events'[Len(events')] = "request"
              /\ pc' = "done" <=> RequestRaised
              /\ pc' = "done" => out' = RaisedOut
          ]_vars
    /\ [](GetterFailed => (events = <<"check">> \o [k \in 1..Len(offsets) |-> "request"]))
    /\ [][ (GetterFailed /\ op' = op /\ events' = <<"check">>) =>
              /\ pc' = "sweep" /\ offset' = 0 /\ offsets' = <<>>
              /\ db_have' = db_have /\ db_rows' = db_rows
          ]_vars
    /\ []((prev.same /\ prev.kind = "raise" /\ Len(offsets) >= 1) => offsets[1] = 0)

C24_Witness ==
    /\ prev.same
    /\ prev.kind = "raise"
    /\ prev.events = <<"check", "request", "request">>
    /\ op.getter = "get_album_songs"
    /\ pc = "done"
    /\ events = FetchEvents(2)
    /\ offsets = <<0, LIMIT>>

\* what determine_file_extension makes of the buffer download_audio returned
ReturnedFormat == determine_file_extension(BufHead(audio.buf, stream_head))

\* C25: when determine_file_extension does not recognize the buffer that
\* download_audio returned, download raises the malformed-stream error and
\* neither bytes_to_file nor convert_audio_format is called; when it does,
\* exactly one of the two is called, once.  Neither is called before that.
C25_UnrecognizedFormatWritesNothing ==
    /\ dl_pc # "done" => persisted = <<>>
    /\ (dl_pc = "done" /\ audio.kind = "buffer") =>
          IF ReturnedFormat = "ValueError"
          THEN dl_out = DlRaised("ValueError") /\ persisted = <<>>
          ELSE /\ dl_out.kind = "return"
               /\ Len(persisted) = 1
               /\ persisted[1].how \in {"write", "convert"}

C25_Witness ==
    /\ dl_pc = "done"
    /\ audio.kind = "buffer"
    /\ BufLen(audio.buf) = total_size
    /\ total_size > 2 * CHUNK_SIZE
    /\ ReturnedFormat = "ValueError"
    /\ dl_out = DlRaised("ValueError")

\* C26: download_audio makes at most
\* total_size * (RETRY_DOWNLOAD + 1) + RETRY_DOWNLOAD + 1 reads of a stream,
\* and its loop, once entered, is left, as long as the read calls return.
C26_DownloadAudioTerminates ==
    /\ [](Len(reads) <= total_size * (RETRY_DOWNLOAD + 1) + RETRY_DOWNLOAD + 1)
    /\ (dl_pc = "loop" ~> dl_pc # "loop")

C26_Witness ==
    /\ dl_pc = "done"
    /\ total_size = MaxTrickle
    /\ downloaded = total_size
    /\ Len(reads) = MaxTrickle * (RETRY_DOWNLOAD + 1)

\* C28: a call of request_song_lyrics that sets the lyrics-downloaded flag
\* has written a lyric file, .txt for UNSYNCED and .lrc for LINE_SYNCED; on a
\* missing response, a 404, a body without lines or any other syncType it
\* writes no file and leaves the flag as it was.
C28_MarkedOnlyIfFileWritten ==
    /\ lyrics_call.marks => lyrics_call.file # NoFile
    /\ lyrics_call.resp = "UNSYNCED" => lyrics_call.file = ".txt"
    /\ lyrics_call.resp = "LINE_SYNCED" => lyrics_call.file = ".lrc"
    /\ lyrics_call.resp \in {"None", "404", "no_lines", "SYLLABLE_SYNCED"} =>
          (lyrics_call.file = NoFile /\ ~lyrics_call.marks)
    /\ \A s \in Songs : lyrics_downloaded[s] => lyrics_files[s] # {}

\* C29: once is_authenticated has returned True, by stored credentials or by
\* user and password, the RespotRequest holds a catalog token and a library
\* token that a session gave out, and every HTTP request sent carries a
\* token that is not None.
C29_TokensSetAfterLogin ==
    /\ token # NoToken /\ token.scope = "user-read-email" /\ token.gen \in 1..session
    /\ token_your_library # NoToken /\ token_your_library.scope = "user-library-read"
    /\ token_your_library.gen \in 1..session
    /\ nreq > 0 => lastReq.auth # NoToken
====
